---- MODULE Spec2Model ----
(***************************************************************************)
(* randr: a daemon that polls `xrandr --query`, mirrors all connected      *)
(* outputs when a new one appears and restores the primary output's first  *)
(* listed mode when one disappears (src/main.go).                          *)
(*                                                                         *)
(* Spec    the polling loop of run() with its environment (timer, signal,  *)
(*         outcome of every xrandr invocation).                            *)
(* SpecFn  bestCommonResolution applied to bounded lists of outputs.       *)
(* SpecParse  the line scan of parseXrandr applied to bounded texts.        *)
(***************************************************************************)
EXTENDS Integers, Sequences, FiniteSets, TLC

VARIABLES
    pc,        \* position of run(): start, select, poll, new, removed, update, done, failed
    prev,      \* run(): prev, the retained snapshot
    prevSet,   \* run(): prevSet
    cur,       \* run(): cur (loop local, <<>> outside a tick)
    curSet,    \* run(): curSet (loop local, {} outside a tick)
    sigCh,     \* number of signals buffered in sigCh (capacity 1)
    tickC,     \* number of ticks buffered in ticker.C (capacity 1)
    cmds,      \* the xrandr reconfiguration commands run so far in this tick, with their outcome
    exitCode,  \* -1 while the process runs, else the status main() ends with
    queryErr,  \* err != nil after the parseXrandr call of this iteration (or of startup)
    outputs,   \* SpecFn: the argument of bestCommonResolution
    result,    \* SpecFn: <<>> before the call, <<r>> once it returned r
    lines,     \* SpecParse: the lines of the xrandr --query output that parseXrandr scans
    reads,     \* history: the results of the last successful parseXrandr calls, oldest first:
               \* the one before this tick's and this tick's during a tick, the last one outside
    failedSince \* history: a parseXrandr call has failed since the last iteration that ran to its end

vars == <<pc, prev, prevSet, cur, curSet, sigCh, tickC, cmds, exitCode, queryErr, outputs, result,
          lines, reads, failedSince>>

-----------------------------------------------------------------------------
(* Bounds *)

\* number of output ports xrandr reports
NumOutputs == 3
\* longest list of outputs handed to bestCommonResolution in SpecFn
MaxFnOutputs == 3
\* longest mode list of an output in SpecFn
MaxModes == 2
\* largest number of lines of xrandr output in SpecParse
MaxLines == 4

-----------------------------------------------------------------------------
(* Data *)

\* type resolution struct { W, H int }
Res(w, h) == [W |-> w, H |-> h]

\* the hardcoded fallback resolution{1920, 1080}
FallbackW == 1920
FallbackH == 1080
Fallback == Res(FallbackW, FallbackH)

R1080 == Res(1920, 1080)
R900 == Res(1600, 900)
\* same pixel count as 1600x900
RSquare == Res(1200, 1200)

\* func (r resolution) pixels() int
pixels(r) == r.W * r.H

\* func (r resolution) String() string: fmt.Sprintf("%dx%d", r.W, r.H)
String(r) == ToString(r.W) \o "x" \o ToString(r.H)

\* type output struct
Output(n, c, p, rs) == [Name |-> n, Connected |-> c, Primary |-> p, Resolutions |-> rs]

\* the zero value of output (var primary output)
ZeroOutput == Output("", FALSE, FALSE, <<>>)

PortNames == <<"eDP-1", "HDMI-1", "DP-1", "DP-2">>

Range(s) == {s[i] : i \in 1..Len(s)}

\* func connectedSet(outputs []output) map[string]bool
connectedSet(os) == {os[i].Name : i \in {j \in 1..Len(os) : os[j].Connected}}

-----------------------------------------------------------------------------
(* bestCommonResolution *)

\* the map `common` after the loop over outputs[1:] has handled outputs[2..k]
RECURSIVE commonUpTo(_, _)
commonUpTo(os, k) ==
    IF k = 1 THEN Range(os[1].Resolutions)
    ELSE {r \in commonUpTo(os, k - 1) : r \in Range(os[k].Resolutions)}

\* the resolutions the slice `shared` holds
sharedOf(os) == commonUpTo(os, Len(os))

\* lastFallback taking outputs[0] instead of the last output
lastFallbackOfFirst(os) ==
    IF Len(os[1].Resolutions) > 0 THEN os[1].Resolutions[1] ELSE Fallback

\* len(shared) == 0: the first mode of the last output, or 1920x1080
lastFallback(os) ==
    LET last == os[Len(os)]
    IN  IF Len(last.Resolutions) > 0 THEN last.Resolutions[1] ELSE Fallback

\* sortedFirst with the comparison reversed (ascending pixels())
sortedFirstAscending(shared) == {r \in shared : \A s \in shared : pixels(r) =< pixels(s)}

\* sort.Slice by descending pixels() and shared[0]. The slice is filled in map
\* iteration order and the sort is not stable, so any element of largest
\* pixel count can come first.
sortedFirst(shared) == {r \in shared : \A s \in shared : pixels(r) >= pixels(s)}

\* func bestCommonResolution(outputs []output) resolution: the set of values a
\* call can return
bestCommonResolution(os) ==
    IF Len(os) = 0 THEN {Fallback}
    ELSE IF sharedOf(os) = {} THEN {lastFallback(os)}
    ELSE sortedFirst(sharedOf(os))

-----------------------------------------------------------------------------
(* What `xrandr --query` can report *)

\* mode lists of a connected output, as parseXrandr builds them: a connected
\* output lists at least its preferred mode
ModeLists == {<<R900, R1080>>, <<RSquare>>}

\* mode lists of a disconnected output
DisconnectedModeLists == {<<>>}

\* the mode lists that go with the connection states c
ModesFor(c) ==
    {m \in [1..NumOutputs -> ModeLists \cup DisconnectedModeLists] :
        \A i \in 1..NumOutputs :
            m[i] \in (IF c[i] THEN ModeLists ELSE DisconnectedModeLists)}

\* the snapshots with connection states c; the X server has at most one
\* primary output (p = 0: none), which need not be connected
SnapshotsWith(c) ==
    { [i \in 1..NumOutputs |-> Output(PortNames[i], c[i], p = i, m[i])] :
        p \in 0..NumOutputs, m \in ModesFor(c) }

\* The snapshots parseXrandr can return: one output per port, in port order
Snapshots == UNION {SnapshotsWith(c) : c \in [1..NumOutputs -> BOOLEAN]}

-----------------------------------------------------------------------------
(* run(): reconciliation *)

\* newOutputs without the prevSet lookup
newOutputsUnfiltered(cs, ps) == cs

\* newOutputs: names in curSet that prevSet lacks
newOutputs(cs, ps) == {name \in cs : name \notin ps}

\* removed: names in prevSet that curSet lacks
removed(cs, ps) == {name \in ps : name \notin cs}

\* allConnected without the `if !o.Connected { continue }`
allOutputs(os) == os

\* all: the connected outputs of cur, in order
allConnected(os) == SelectSeq(os, LAMBDA o : o.Connected)

\* primary as the loop over cur leaves it: the last connected output with the
\* primary flag, or the zero output
RECURSIVE flaggedPrimary(_)
flaggedPrimary(all) ==
    IF all = <<>> THEN ZeroOutput
    ELSE IF all[Len(all)].Primary THEN all[Len(all)]
    ELSE flaggedPrimary(SubSeq(all, 1, Len(all) - 1))

\* externals as the loop over cur leaves it: the connected outputs without the flag
flaggedExternals(all) == SelectSeq(all, LAMBDA o : ~o.Primary)

\* primaryOf without the fallback to all[0]
primaryWithoutFallback(all) == flaggedPrimary(all)

\* if primary.Name == "" && len(all) > 0 { primary = all[0]; externals = all[1:] }
primaryOf(all) ==
    IF flaggedPrimary(all).Name = "" /\ Len(all) > 0 THEN all[1] ELSE flaggedPrimary(all)

\* externals without the primary taken out
externalsWithPrimary(all) == all

externalsOf(all) ==
    IF flaggedPrimary(all).Name = "" /\ Len(all) > 0 THEN Tail(all) ELSE flaggedExternals(all)

\* the arguments mirror() appends for the externals
RECURSIVE externalArgs(_, _, _)
externalArgs(primary, externals, res) ==
    IF externals = <<>> THEN <<>>
    ELSE <<"--output", Head(externals).Name, "--mode", String(res), "--same-as", primary.Name>>
         \o externalArgs(primary, Tail(externals), res)

\* func mirror(primary output, externals []output, res resolution): args
mirrorArgs(primary, externals, res) ==
    <<"--output", primary.Name, "--mode", String(res), "--pos", "0x0", "--primary">>
    \o externalArgs(primary, externals, res)

\* the outputs the restore loop stops at: connected, primary, with a mode
restoreCandidates(os) ==
    SelectSeq(os, LAMBDA o : o.Connected /\ o.Primary /\ Len(o.Resolutions) > 0)

\* the restore command with the mode of largest pixel count instead of the first
restoreArgsLargest(o) ==
    LET best == CHOOSE r \in Range(o.Resolutions) :
                    \A q \in Range(o.Resolutions) : pixels(r) >= pixels(q)
    IN  <<"--output", o.Name, "--mode", String(best), "--primary">>

\* exec.Command("xrandr", "--output", o.Name, "--mode", native.String(), "--primary")
restoreArgs(o) == <<"--output", o.Name, "--mode", String(o.Resolutions[1]), "--primary">>

\* one command run, ok = cmd.Run() returned nil
Cmd(kind, args, ok) == [kind |-> kind, args |-> args, ok |-> ok]

-----------------------------------------------------------------------------
(* run(): the loop *)

Init ==
    /\ pc = "start"
    /\ prev = <<>>
    /\ prevSet = {}
    /\ cur = <<>>
    /\ curSet = {}
    /\ sigCh = 0
    /\ tickC = 0
    /\ cmds = <<>>
    /\ exitCode = -1
    /\ queryErr = FALSE
    /\ outputs = <<>>
    /\ result = <<>>
    /\ lines = <<>>
    /\ reads = <<>>
    /\ failedSince = FALSE

\* prev, err := parseXrandr() succeeds; prevSet := connectedSet(prev)
StartOk ==
    /\ pc = "start"
    /\ \E s \in Snapshots :
        /\ prev' = s
        /\ prevSet' = connectedSet(s)
        /\ reads' = <<s>>
    /\ pc' = "select"
    /\ queryErr' = FALSE
    /\ UNCHANGED <<cur, curSet, sigCh, tickC, cmds, exitCode, outputs, result, lines, failedSince>>

\* StartFail with the error only logged: the loop starts on an empty snapshot
StartFailIgnored ==
    /\ pc = "start"
    /\ pc' = "select"
    /\ queryErr' = TRUE
    /\ UNCHANGED <<prev, prevSet, cur, curSet, sigCh, tickC, cmds, exitCode, outputs, result, lines, reads, failedSince>>

\* the first parseXrandr() fails: run returns err and main calls os.Exit(1)
StartFail ==
    /\ pc = "start"
    /\ pc' = "failed"
    /\ exitCode' = 1
    /\ queryErr' = TRUE
    /\ UNCHANGED <<prev, prevSet, cur, curSet, sigCh, tickC, cmds, outputs, result, lines, reads, failedSince>>

\* SIGINT or SIGTERM arrives after signal.Notify; a full channel drops it
Signal ==
    /\ pc \notin {"start", "done", "failed"}
    /\ sigCh = 0
    /\ sigCh' = 1
    /\ UNCHANGED <<pc, prev, prevSet, cur, curSet, tickC, cmds, exitCode, queryErr, outputs, result, lines, reads, failedSince>>

\* The ticker fires; a full channel drops the tick. A tick that fires while an
\* iteration runs waits in ticker.C until the loop is back at the select, where
\* it is indistinguishable from one that fires then: the model has it fire there.
Timer ==
    /\ pc = "select"
    /\ tickC = 0
    /\ tickC' = 1
    /\ UNCHANGED <<pc, prev, prevSet, cur, curSet, sigCh, cmds, exitCode, queryErr, outputs, result, lines, reads, failedSince>>

\* SelectSignal without the return: the signal is logged and the poll goes on
SelectSignalNoReturn ==
    /\ pc = "select"
    /\ sigCh = 1
    /\ sigCh' = 0
    /\ pc' = "poll"
    /\ UNCHANGED <<prev, prevSet, cur, curSet, tickC, cmds, exitCode, queryErr, outputs, result, lines, reads, failedSince>>

\* select: case <-sigCh: return nil, and main returns with status 0
SelectSignal ==
    /\ pc = "select"
    /\ sigCh = 1
    /\ sigCh' = 0
    /\ pc' = "done"
    /\ exitCode' = 0
    /\ UNCHANGED <<prev, prevSet, cur, curSet, tickC, cmds, queryErr, outputs, result, lines, reads, failedSince>>

\* SelectTick emptying sigCh as well: a signal that waits when a tick is taken is lost
SelectTickDrainsSignal ==
    /\ pc = "select"
    /\ tickC = 1
    /\ tickC' = 0
    /\ sigCh' = 0
    /\ pc' = "poll"
    /\ queryErr' = FALSE
    /\ UNCHANGED <<prev, prevSet, cur, curSet, cmds, exitCode, outputs, result, lines, reads, failedSince>>

\* select: case <-ticker.C
SelectTick ==
    /\ pc = "select"
    /\ tickC = 1
    /\ tickC' = 0
    /\ pc' = "poll"
    /\ queryErr' = FALSE
    /\ UNCHANGED <<prev, prevSet, cur, curSet, sigCh, cmds, exitCode, outputs, result, lines, reads, failedSince>>

\* PollFail without the continue: the iteration goes on with cur == nil
PollFailNoContinue ==
    /\ pc = "poll"
    /\ pc' = "new"
    /\ queryErr' = TRUE
    /\ failedSince' = TRUE
    /\ UNCHANGED <<prev, prevSet, cur, curSet, sigCh, tickC, cmds, exitCode, outputs, result, lines, reads>>

\* PollFail with the failed call's nil result stored in prev ("prev, err = parseXrandr()")
PollFailForgets ==
    /\ pc = "poll"
    /\ pc' = "select"
    /\ queryErr' = TRUE
    /\ failedSince' = TRUE
    /\ prev' = <<>>
    /\ prevSet' = {}
    /\ UNCHANGED <<cur, curSet, sigCh, tickC, cmds, exitCode, outputs, result, lines, reads>>

\* cur, err := parseXrandr() fails: continue
PollFail ==
    /\ pc = "poll"
    /\ pc' = "select"
    /\ queryErr' = TRUE
    /\ failedSince' = TRUE
    /\ UNCHANGED <<prev, prevSet, cur, curSet, sigCh, tickC, cmds, exitCode, outputs, result, lines, reads>>

\* cur, err := parseXrandr() succeeds; curSet := connectedSet(cur)
PollOk ==
    /\ pc = "poll"
    /\ \E s \in Snapshots :
        /\ cur' = s
        /\ curSet' = connectedSet(s)
        /\ reads' = <<reads[Len(reads)], s>>
    /\ pc' = "new"
    /\ queryErr' = FALSE
    /\ UNCHANGED <<prev, prevSet, sigCh, tickC, cmds, exitCode, outputs, result, lines, failedSince>>

\* HandleNew with a continue after "mirror failed": the rest of the iteration is skipped
HandleNewAbortOnFailure ==
    /\ pc = "new"
    /\ LET all == allConnected(cur)
       IN  IF newOutputs(curSet, prevSet) # {} /\ Len(externalsOf(all)) > 0
           THEN \E res \in bestCommonResolution(all), ok \in BOOLEAN :
                    /\ cmds' = IF ok
                               THEN Append(cmds, Cmd("mirror",
                                        mirrorArgs(primaryOf(all), externalsOf(all), res), ok))
                               ELSE <<>>
                    /\ pc' = IF ok THEN "removed" ELSE "select"
                    /\ cur' = IF ok THEN cur ELSE <<>>
                    /\ curSet' = IF ok THEN curSet ELSE {}
           ELSE /\ cmds' = cmds
                /\ pc' = "removed"
                /\ UNCHANGED <<cur, curSet>>
    /\ UNCHANGED <<prev, prevSet, sigCh, tickC, exitCode, queryErr, outputs, result, lines, reads, failedSince>>

\* the mirror commands of HandleNewPerExternal: one xrandr run per external
RECURSIVE perExternalCmds(_, _, _, _)
perExternalCmds(primary, externals, res, ok) ==
    IF externals = <<>> THEN <<>>
    ELSE <<Cmd("mirror", mirrorArgs(primary, <<Head(externals)>>, res), ok)>>
         \o perExternalCmds(primary, Tail(externals), res, ok)

\* HandleNew calling mirror() once per external instead of once for all
HandleNewPerExternal ==
    /\ pc = "new"
    /\ LET all == allConnected(cur)
       IN  IF newOutputs(curSet, prevSet) # {} /\ Len(externalsOf(all)) > 0
           THEN \E res \in bestCommonResolution(all), ok \in BOOLEAN :
                    cmds' = cmds \o perExternalCmds(primaryOf(all), externalsOf(all), res, ok)
           ELSE cmds' = cmds
    /\ pc' = "removed"
    /\ UNCHANGED <<prev, prevSet, cur, curSet, sigCh, tickC, exitCode, queryErr, outputs, result, lines, reads, failedSince>>

\* "Detect newly connected outputs" up to the end of the if: mirror() runs
\* when an output is new and there are externals, and its error is only logged
HandleNew ==
    /\ pc = "new"
    /\ LET all == allConnected(cur)
       IN  IF newOutputs(curSet, prevSet) # {} /\ Len(externalsOf(all)) > 0
           THEN \E res \in bestCommonResolution(all), ok \in BOOLEAN :
                    cmds' = Append(cmds,
                        Cmd("mirror", mirrorArgs(primaryOf(all), externalsOf(all), res), ok))
           ELSE cmds' = cmds
    /\ pc' = "removed"
    /\ UNCHANGED <<prev, prevSet, cur, curSet, sigCh, tickC, exitCode, queryErr, outputs, result, lines, reads, failedSince>>

\* HandleRemoved as the else branch of the appearance part: no restore on a
\* tick that saw a new output
HandleRemovedUnlessNew ==
    /\ pc = "removed"
    /\ IF /\ newOutputs(curSet, prevSet) = {}
          /\ removed(curSet, prevSet) # {}
          /\ Len(restoreCandidates(cur)) > 0
       THEN \E ok \in BOOLEAN :
                cmds' = Append(cmds, Cmd("restore", restoreArgs(restoreCandidates(cur)[1]), ok))
       ELSE cmds' = cmds
    /\ pc' = "update"
    /\ UNCHANGED <<prev, prevSet, cur, curSet, sigCh, tickC, exitCode, queryErr, outputs, result, lines, reads, failedSince>>

\* HandleRemoved with a look at sigCh first: a pending signal ends the loop
\* in the middle of the tick
HandleRemovedReturnsOnSignal ==
    /\ pc = "removed"
    /\ IF sigCh = 1
       THEN /\ sigCh' = 0
            /\ pc' = "done"
            /\ exitCode' = 0
            /\ cmds' = cmds
       ELSE /\ IF removed(curSet, prevSet) # {} /\ Len(restoreCandidates(cur)) > 0
               THEN \E ok \in BOOLEAN :
                        cmds' = Append(cmds,
                            Cmd("restore", restoreArgs(restoreCandidates(cur)[1]), ok))
               ELSE cmds' = cmds
            /\ pc' = "update"
            /\ UNCHANGED <<sigCh, exitCode>>
    /\ UNCHANGED <<prev, prevSet, cur, curSet, tickC, queryErr, outputs, result, lines, reads, failedSince>>

\* "Detect disconnected outputs" up to the end of the if: the restore command
\* runs for the first candidate, and its error is only logged
HandleRemoved ==
    /\ pc = "removed"
    /\ IF removed(curSet, prevSet) # {} /\ Len(restoreCandidates(cur)) > 0
       THEN \E ok \in BOOLEAN :
                cmds' = Append(cmds, Cmd("restore", restoreArgs(restoreCandidates(cur)[1]), ok))
       ELSE cmds' = cmds
    /\ pc' = "update"
    /\ UNCHANGED <<prev, prevSet, cur, curSet, sigCh, tickC, exitCode, queryErr, outputs, result, lines, reads, failedSince>>

\* Update without prev = cur: only the set of names is carried over
UpdateSetOnly ==
    /\ pc = "update"
    /\ prevSet' = curSet
    /\ prev' = prev
    /\ cur' = <<>>
    /\ curSet' = {}
    /\ cmds' = <<>>
    /\ pc' = "select"
    /\ reads' = <<reads[Len(reads)]>>
    /\ failedSince' = FALSE
    /\ UNCHANGED <<sigCh, tickC, exitCode, queryErr, outputs, result, lines>>

\* prevSet = curSet; prev = cur; the iteration ends and its locals go
Update ==
    /\ pc = "update"
    /\ prevSet' = curSet
    /\ prev' = cur
    /\ cur' = <<>>
    /\ curSet' = {}
    /\ cmds' = <<>>
    /\ pc' = "select"
    /\ reads' = <<reads[Len(reads)]>>
    /\ failedSince' = FALSE
    /\ UNCHANGED <<sigCh, tickC, exitCode, queryErr, outputs, result, lines>>

Next ==
    \/ StartOk
    \/ StartFail
    \/ Signal
    \/ Timer
    \/ SelectSignal
    \/ SelectTick
    \/ PollFail
    \/ PollOk
    \/ HandleNew
    \/ HandleRemoved
    \/ Update

Spec == Init /\ [][Next]_vars

\* The loop with its scheduling: every xrandr invocation returns (the query
\* and the two reconfiguration commands), the statements of an iteration are
\* executed, a tick that waits alone is taken, and the select, which picks at
\* random among its ready cases, does not pass over a waiting signal forever.
\* Nothing is assumed about the arrival of signals and timer ticks.
SpecLive ==
    /\ Spec
    /\ WF_vars(PollFail \/ PollOk)
    /\ WF_vars(HandleNew)
    /\ WF_vars(HandleRemoved)
    /\ WF_vars(Update)
    /\ SF_vars(SelectSignal)

-----------------------------------------------------------------------------
(* bestCommonResolution on its own *)

\* the resolutions the mode lists of SpecFn are made of
FnRes == {R1080, R900, RSquare}

\* the sequences over S of length n without a repeated element
RECURSIVE SeqsOfLen(_, _)
SeqsOfLen(S, n) ==
    IF n = 0 THEN {<<>>}
    ELSE {Append(q, x) : q \in SeqsOfLen(S, n - 1), x \in S}

\* mode lists: each size listed once, in any order
FnModeLists ==
    {q \in UNION {SeqsOfLen(FnRes, n) : n \in 0..MaxModes} :
        \A i, j \in 1..Len(q) : i # j => q[i] # q[j]}

\* a list of connected outputs with the mode lists m
FnOutputs(m) == [i \in 1..Len(m) |-> Output(PortNames[i], TRUE, FALSE, m[i])]

InitFn ==
    /\ pc = "fn"
    /\ \E n \in 0..MaxFnOutputs : \E m \in [1..n -> FnModeLists] : outputs = FnOutputs(m)
    /\ result = <<>>
    /\ prev = <<>>
    /\ prevSet = {}
    /\ cur = <<>>
    /\ curSet = {}
    /\ sigCh = 0
    /\ tickC = 0
    /\ cmds = <<>>
    /\ exitCode = -1
    /\ queryErr = FALSE
    /\ lines = <<>>
    /\ reads = <<>>
    /\ failedSince = FALSE

\* result := bestCommonResolution(outputs)
CallBestCommon ==
    /\ pc = "fn"
    /\ result = <<>>
    /\ \E r \in bestCommonResolution(outputs) : result' = <<r>>
    /\ UNCHANGED <<pc, prev, prevSet, cur, curSet, sigCh, tickC, cmds, exitCode, queryErr, outputs, lines, reads, failedSince>>

NextFn == CallBestCommon

SpecFn == InitFn /\ [][NextFn]_vars

-----------------------------------------------------------------------------
(* parseXrandr on its own: the scan of the lines of `xrandr --query` *)

\* A line is the sequence of its characters. \s of the two patterns:
Space == {" ", "\t"}

\* \d of modeRe, the character of digit d at position d + 1
Digits == <<"0", "1", "2", "3", "4", "5", "6", "7", "8", "9">>

DigitSet == Range(Digits)

\* the literals of outputRe
Wconnected == <<"c", "o", "n", "n", "e", "c", "t", "e", "d">>
Wdisconnected == <<"d", "i", "s">> \o Wconnected
Wprimary == <<"p", "r", "i", "m", "a", "r", "y">>

\* length of the longest run, from position i of l, of characters that are in
\* S (in = TRUE) or not in S (in = FALSE): what a greedy \s+, \S+ or \d+ takes.
\* No shorter match exists for the two patterns: what follows each run cannot
\* start with a character of the run's class.
RECURSIVE run(_, _, _, _)
run(l, i, S, in) ==
    IF i > Len(l) \/ ((l[i] \in S) # in) THEN 0 ELSE 1 + run(l, i + 1, S, in)

\* the literal w stands at position i of l
hasAt(l, i, w) == i + Len(w) - 1 =< Len(l) /\ SubSeq(l, i, i + Len(w) - 1) = w

\* strconv.Atoi on a run of digits (the range error of a run too long for an
\* int is not reached by lines this short)
RECURSIVE Atoi(_)
Atoi(ds) ==
    IF ds = <<>> THEN 0
    ELSE 10 * Atoi(SubSeq(ds, 1, Len(ds) - 1))
         + (CHOOSE d \in 0..9 : Digits[d + 1] = ds[Len(ds)])

\* outputRe.FindStringSubmatch(line): <<>> for nil, else the output it starts
matchOutput(l) ==
    LET n == run(l, 1, Space, FALSE)
        m == run(l, n + 1, Space, TRUE)
        p == n + m + 1
        isC == hasAt(l, p, Wconnected)
        isD == hasAt(l, p, Wdisconnected)
        q == p + (IF isC THEN Len(Wconnected) ELSE Len(Wdisconnected))
        r == q + run(l, q, Space, TRUE)
    IN  IF n >= 1 /\ m >= 1 /\ (isC \/ isD)
        THEN <<Output(SubSeq(l, 1, n), isC, hasAt(l, r, Wprimary), <<>>)>>
        ELSE <<>>

\* modeRe.FindStringSubmatch(line): <<>> for nil, else resolution{w, h}
matchMode(l) ==
    LET s == run(l, 1, Space, TRUE)
        a == run(l, s + 1, DigitSet, TRUE)
        x == s + a + 1
        b == run(l, x + 1, DigitSet, TRUE)
        t == run(l, x + b + 1, Space, TRUE)
    IN  IF s >= 1 /\ a >= 1 /\ hasAt(l, x, <<"x">>) /\ b >= 1 /\ t >= 1
        THEN <<Res(Atoi(SubSeq(l, s + 1, s + a)), Atoi(SubSeq(l, x + 1, x + b)))>>
        ELSE <<>>

\* scanLine attaching a mode line only to a connected output
scanLineConnectedOnly(os, l) ==
    IF matchOutput(l) # <<>> THEN Append(os, matchOutput(l)[1])
    ELSE IF os # <<>> /\ os[Len(os)].Connected /\ matchMode(l) # <<>>
         THEN [os EXCEPT ![Len(os)].Resolutions = Append(@, matchMode(l)[1])]
         ELSE os

\* one pass of the scanner loop on line l, os being outputs so far; cur points
\* at the last element of outputs from the first header line on, and is nil before
scanLine(os, l) ==
    IF matchOutput(l) # <<>> THEN Append(os, matchOutput(l)[1])
    ELSE IF os # <<>> /\ matchMode(l) # <<>>
         THEN [os EXCEPT ![Len(os)].Resolutions = Append(@, matchMode(l)[1])]
         ELSE os

\* the scanner loop over ls, first line first
RECURSIVE scanLines(_)
scanLines(ls) ==
    IF ls = <<>> THEN <<>>
    ELSE scanLine(scanLines(SubSeq(ls, 1, Len(ls) - 1)), ls[Len(ls)])

\* words the lines of SpecParse are made of
WeDP == <<"e", "D", "P", "-", "1">>
WHDMI == <<"H", "D", "M", "I", "-", "1">>
WDP == <<"D", "P", "-", "1">>
W1080 == <<"1", "9", "2", "0", "x", "1", "0", "8", "0">>
W900 == <<"1", "6", "0", "0", "x", "9", "0", "0">>
WRate == <<"6", "0", ".", "0", "0">>

\* the lines `xrandr --query` prints in SpecParse
LinePool ==
    { WeDP \o <<" ">> \o Wconnected \o <<" ">> \o Wprimary \o <<" ">> \o W1080 \o <<"+", "0", "+", "0">>,
      WHDMI \o <<" ">> \o Wconnected \o <<" ">> \o W900 \o <<"+", "0", "+", "0">>,
      WDP \o <<" ">> \o Wdisconnected \o <<" ", "(">>,
      <<" ", " ", " ">> \o W1080 \o <<" ", " ">> \o WRate \o <<"*", "+">>,
      <<"\t", "0">> \o W900 \o <<"\t">>,
      <<" ", " ", " ">> \o W1080 \o <<"i", " ", " ">> \o WRate,
      <<" ", " ", " ">> \o W900,
      <<"S", "c", "r", "e", "e", "n", " ", "0", ":">> }

InitParse ==
    /\ pc = "parse"
    /\ \E n \in 0..MaxLines : \E f \in [1..n -> LinePool] : lines = f
    /\ outputs = <<>>
    /\ result = <<>>
    /\ prev = <<>>
    /\ prevSet = {}
    /\ cur = <<>>
    /\ curSet = {}
    /\ sigCh = 0
    /\ tickC = 0
    /\ cmds = <<>>
    /\ exitCode = -1
    /\ queryErr = FALSE
    /\ reads = <<>>
    /\ failedSince = FALSE

\* outputs := the value parseXrandr returns for the text made of lines
ParseLines ==
    /\ pc = "parse"
    /\ outputs' = scanLines(lines)
    /\ pc' = "parsed"
    /\ UNCHANGED <<prev, prevSet, cur, curSet, sigCh, tickC, cmds, exitCode, queryErr, result,
                   lines, reads, failedSince>>

NextParse == ParseLines

SpecParse == InitParse /\ [][NextParse]_vars

-----------------------------------------------------------------------------

(* Vocabulary of the properties *)

\* positions of the connected outputs of the current snapshot
ConnIdx == {i \in 1..Len(cur) : cur[i].Connected}

\* names of the connected outputs of the current snapshot
CurNames == {cur[i].Name : i \in ConnIdx}

\* positions of the connected outputs that carry the primary flag
FlagIdx == {i \in ConnIdx : cur[i].Primary}

Min(S) == CHOOSE i \in S : \A j \in S : i =< j

\* the flagged connected output, else the first connected output
TargetIdx == IF FlagIdx # {} THEN Min(FlagIdx) ELSE Min(ConnIdx)

Appeared == CurNames \ prevSet

Disappeared == prevSet \ CurNames

MirrorCmds == SelectSeq(cmds, LAMBDA c : c.kind = "mirror")

RestoreCmds == SelectSeq(cmds, LAMBDA c : c.kind = "restore")

\* the resolutions every output of os lists
CommonToAll(os) ==
    {r \in Range(os[1].Resolutions) : \A i \in 1..Len(os) : r \in Range(os[i].Resolutions)}

-----------------------------------------------------------------------------
(* Properties *)

\* C1: once the appearance part of a successful tick is over, exactly one
\* mirror command has been run if some connected output is new with respect
\* to prevSet and a connected output other than the chosen primary exists,
\* and none otherwise; none in particular when a single output is connected.
C1_MirrorIffAppearedAndExternal ==
    pc \in {"removed", "update"} =>
        /\ Len(MirrorCmds) =
              (IF Appeared # {} /\ (\E i \in ConnIdx : i # TargetIdx) THEN 1 ELSE 0)
        /\ Cardinality(ConnIdx) = 1 => MirrorCmds = <<>>

\* a mirror command was run on a tick where an output appeared next to one
\* that was connected before
C1_Witness ==
    /\ pc = "removed"
    /\ Len(MirrorCmds) = 1
    /\ Appeared # {}
    /\ CurNames \cap prevSet # {}

\* C2 (as claimed): when an output has disappeared, the restore target is the
\* first connected output with the primary flag or, when none has it, the first
\* connected output; if it lists a mode, exactly one restore command is run,
\* and for it.
C2_RestoreTargetWithFallback ==
    (pc = "update" /\ Disappeared # {} /\ ConnIdx # {}) =>
        (Len(cur[TargetIdx].Resolutions) > 0 =>
            /\ Len(RestoreCmds) = 1
            /\ RestoreCmds[1].args[2] = cur[TargetIdx].Name)

\* C3: every restore command names a connected primary output of the current
\* snapshot, uses the first entry of its mode list as the mode and marks it
\* primary.
C3_RestoreUsesFirstMode ==
    \A n \in 1..Len(cmds) :
        cmds[n].kind = "restore" =>
            \E i \in FlagIdx :
                /\ cur[i].Resolutions # <<>>
                /\ cmds[n].args = <<"--output", cur[i].Name,
                                    "--mode", String(cur[i].Resolutions[1]), "--primary">>

\* an output listing [1600x900, 1920x1080] was restored to 1600x900
C3_Witness ==
    \E n \in 1..Len(cmds), i \in FlagIdx :
        /\ cmds[n].kind = "restore"
        /\ cur[i].Resolutions = <<R900, R1080>>
        /\ cmds[n].args = <<"--output", cur[i].Name, "--mode", "1600x900", "--primary">>

\* C4: for a non-empty list of outputs with a common resolution, the value
\* returned is listed by every output and no common resolution has more pixels.
C4_BestCommonIsLargestShared ==
    (result # <<>> /\ Len(outputs) > 0 /\ CommonToAll(outputs) # {}) =>
        /\ result[1] \in CommonToAll(outputs)
        /\ \A r \in CommonToAll(outputs) : result[1].W * result[1].H >= r.W * r.H

\* three outputs share two resolutions, the larger is returned although the
\* first output lists the smaller first
C4_Witness ==
    /\ result = <<R1080>>
    /\ Len(outputs) = 3
    /\ Cardinality(CommonToAll(outputs)) = 2
    /\ outputs[1].Resolutions[1] # R1080

\* the value bestCommonResolution returns without a common resolution
LastFirstOrFallback(os) ==
    IF os[Len(os)].Resolutions # <<>> THEN os[Len(os)].Resolutions[1] ELSE Res(1920, 1080)

\* C5 (amended): for a non-empty list of outputs without a common resolution,
\* the value returned is the first resolution of the last output, or 1920x1080
\* when the last output lists none.
C5_FallbackIsFirstOfLast ==
    (result # <<>> /\ Len(outputs) > 0 /\ CommonToAll(outputs) = {}) =>
        result[1] = LastFirstOrFallback(outputs)

\* two outputs with disjoint, non-empty lists: the first mode of the last one
C5_Witness ==
    /\ result # <<>>
    /\ Len(outputs) >= 2
    /\ CommonToAll(outputs) = {}
    /\ outputs[1].Resolutions # <<>>
    /\ outputs[Len(outputs)].Resolutions # <<>>
    /\ result[1] = outputs[Len(outputs)].Resolutions[1]

\* C5 (as claimed): ... and the value returned is never a resolution of an
\* earlier output.
C5_NeverOfEarlierOutput ==
    (result # <<>> /\ Len(outputs) > 0 /\ CommonToAll(outputs) = {}) =>
        /\ result[1] = LastFirstOrFallback(outputs)
        /\ \A i \in 1..(Len(outputs) - 1) : result[1] \notin Range(outputs[i].Resolutions)

\* C6: a poll whose query fails runs no command, leaves prev and prevSet as
\* they were and takes the loop back to the select, the process still running.
C6_QueryFailureKeepsState ==
    [][(pc = "poll" /\ queryErr') =>
          /\ cmds' = <<>>
          /\ prev' = prev
          /\ prevSet' = prevSet
          /\ pc' = "select"
          /\ exitCode' = -1]_vars

\* the loop waits again after a failed query, with the snapshot of before
C6_Witness ==
    /\ pc = "select"
    /\ queryErr
    /\ prevSet # {}

\* C7: a successful tick whose connected names are those of prevSet has run
\* no command by its end, whatever the modes and primary flags are.
C7_SameConnectedSetNoCommand ==
    (pc = "update" /\ CurNames = prevSet) => cmds = <<>>

\* same connected names, two or more of them, in a snapshot that differs from prev
C7_Witness ==
    /\ pc = "update"
    /\ CurNames = prevSet
    /\ Cardinality(CurNames) >= 2
    /\ cur # prev

\* C8: a command is run at most once per tick; whatever its outcome the
\* iteration goes on from the appearance part to the disappearance part and to
\* the update, the restore is decided by the snapshots alone, and the update
\* makes the current snapshot the retained one with the process still running.
C8_CommandFailureOnlyLogged ==
    /\ [](Len(MirrorCmds) =< 1 /\ Len(RestoreCmds) =< 1)
    /\ [][pc = "new" => pc' \in {"new", "removed"}]_vars
    /\ [][pc = "removed" => pc' \in {"removed", "update"}]_vars
    /\ [](pc = "update" =>
            (Len(RestoreCmds) = 1 <=>
                (Disappeared # {} /\ \E i \in FlagIdx : cur[i].Resolutions # <<>>)))
    /\ [][(pc = "update" /\ pc' # pc) =>
            /\ prev' = cur
            /\ prevSet' = CurNames
            /\ pc' = "select"
            /\ exitCode' = -1]_vars

\* a failed mirror command followed by the restore command of the same tick
C8_Witness ==
    /\ pc = "update"
    /\ Len(cmds) = 2
    /\ cmds[1].kind = "mirror"
    /\ ~cmds[1].ok
    /\ cmds[2].kind = "restore"

\* C9: when the first query fails the process ends with status 1 without
\* having retained a snapshot, taken a tick or run a command, and stays so.
C9_StartupFailureIsFatal ==
    /\ [][(pc = "start" /\ queryErr') => (pc' = "failed" /\ exitCode' = 1)]_vars
    /\ [](pc = "failed" => (exitCode = 1 /\ cmds = <<>> /\ prev = <<>> /\ tickC = 0))
    /\ [][pc = "failed" => UNCHANGED vars]_vars

\* the process has ended on the failed first query
C9_Witness ==
    /\ pc = "failed"
    /\ queryErr
    /\ exitCode = 1

\* C10 (as claimed): with a signal delivered, the select never starts another
\* poll, a pending tick included.
C10_SignalAlwaysPreempts ==
    [][(pc = "select" /\ sigCh = 1 /\ pc' # pc) => pc' = "done"]_vars

\* C10 (amended): with a signal delivered and no tick pending, the select
\* ends the loop with status 0; a delivered signal is only ever taken by the
\* select that ends the loop.
C10_SignalPreemptsWithoutPendingTick ==
    /\ [][(pc = "select" /\ sigCh = 1 /\ tickC = 0 /\ pc' # pc) =>
            (pc' = "done" /\ exitCode' = 0)]_vars
    /\ [][(sigCh = 1 /\ sigCh' = 0) => (pc = "select" /\ pc' = "done")]_vars

\* the loop has ended on a signal, with no tick pending
C10_Witness ==
    /\ pc = "done"
    /\ exitCode = 0
    /\ tickC = 0
    /\ prevSet # {}

\* C11 (as claimed): a tick on which one output has appeared and another has
\* disappeared runs both a mirror and a restore command.
C11_AppearAndDisappearGiveBoth ==
    (pc = "update" /\ Cardinality(Appeared) = 1 /\ Cardinality(Disappeared) = 1) =>
        /\ Len(MirrorCmds) = 1
        /\ Len(RestoreCmds) = 1

\* C11 (amended): on such a tick the mirror command is run exactly when two or
\* more outputs are connected, the restore command exactly when a connected
\* output with the primary flag lists a mode, and the mirror command comes
\* first when both are run.
C11_AppearAndDisappearEachOnItsCondition ==
    (pc = "update" /\ Cardinality(Appeared) = 1 /\ Cardinality(Disappeared) = 1) =>
        /\ Len(MirrorCmds) = (IF Cardinality(ConnIdx) >= 2 THEN 1 ELSE 0)
        /\ Len(RestoreCmds) =
              (IF \E i \in FlagIdx : cur[i].Resolutions # <<>> THEN 1 ELSE 0)
        /\ (MirrorCmds # <<>> /\ RestoreCmds # <<>>) =>
              (cmds[1].kind = "mirror" /\ cmds[2].kind = "restore")

\* one output appeared, another disappeared, and both commands were run
C11_Witness ==
    /\ pc = "update"
    /\ Cardinality(Appeared) = 1
    /\ Cardinality(Disappeared) = 1
    /\ Len(cmds) = 2
    /\ cmds[1].kind = "mirror"
    /\ cmds[2].kind = "restore"
    /\ cmds[1].ok

\* the names of the externals of a mirror command, in the order of the arguments
ExternalNames(args) == [k \in 1..((Len(args) - 7) \div 6) |-> args[6 * k + 3]]

\* the modes a mirror command sets for its externals, in the order of the arguments
ExternalModes(args) == [k \in 1..((Len(args) - 7) \div 6) |-> args[6 * k + 5]]

\* the names of the connected outputs of the current snapshot other than
\* position t, in snapshot order
RECURSIVE ConnectedNamesBut(_, _)
ConnectedNamesBut(n, t) ==
    IF n = 0 THEN <<>>
    ELSE IF cur[n].Connected /\ n # t
         THEN Append(ConnectedNamesBut(n - 1, t), cur[n].Name)
         ELSE ConnectedNamesBut(n - 1, t)

\* C12: the primary of a mirror command is the connected output with the
\* primary flag or, when no connected output has the flag, the first connected
\* output, and then the externals are the other connected outputs in snapshot
\* order.
C12_MirrorPrimaryAndExternals ==
    \A n \in 1..Len(cmds) :
        cmds[n].kind = "mirror" =>
            /\ cmds[n].args[2] = cur[TargetIdx].Name
            /\ FlagIdx # {} => cur[TargetIdx].Primary
            /\ FlagIdx = {} =>
                  /\ TargetIdx = Min(ConnIdx)
                  /\ ExternalNames(cmds[n].args) =
                        ConnectedNamesBut(Len(cur), TargetIdx)

\* a mirror command on a snapshot with three connected outputs and no
\* connected output flagged primary
C12_Witness ==
    \E n \in 1..Len(cmds) :
        /\ cmds[n].kind = "mirror"
        /\ FlagIdx = {}
        /\ Cardinality(ConnIdx) = 3
        /\ cmds[n].args[2] = "eDP-1"
        /\ ExternalNames(cmds[n].args) = <<"HDMI-1", "DP-1">>

\* the names a mirror command configures: the primary, then the externals
MirrorNames(args) == <<args[2]>> \o ExternalNames(args)

\* C13: a tick runs at most one mirror command; it names every connected
\* output of the current snapshot exactly once, as the primary or as an
\* external, names no other output, and sets one and the same mode for all.
C13_MirrorCoversConnectedOnce ==
    /\ Len(MirrorCmds) =< 1
    /\ \A n \in 1..Len(cmds) :
        cmds[n].kind = "mirror" =>
            LET names == MirrorNames(cmds[n].args)
            IN  /\ Len(names) = Cardinality(ConnIdx)
                /\ Range(names) = CurNames
                /\ \A m \in Range(ExternalModes(cmds[n].args)) : m = cmds[n].args[4]
                /\ Len(cmds[n].args) = 7 + 6 * (Cardinality(ConnIdx) - 1)

\* a mirror command on a snapshot with two connected outputs and a
\* disconnected one between them
C13_Witness ==
    \E n \in 1..Len(cmds) :
        /\ cmds[n].kind = "mirror"
        /\ ConnIdx = {1, 3}
        /\ Range(MirrorNames(cmds[n].args)) = {"eDP-1", "DP-1"}
        /\ cmds[n].args[4] = cmds[n].args[11]

\* the resolutions every connected output of the current snapshot lists
CommonToConnected ==
    {r \in UNION {Range(cur[i].Resolutions) : i \in ConnIdx} :
        \A i \in ConnIdx : r \in Range(cur[i].Resolutions)}

\* the last connected output of the current snapshot
Max(S) == CHOOSE i \in S : \A j \in S : i >= j

\* C14 (as claimed): a mirror command run on a tick whose connected outputs
\* share no resolution uses the first listed mode of an output that appeared
\* on this tick, the last connected output being one.
C14_FallbackModeIsOfAppearedOutput ==
    \A n \in 1..Len(cmds) :
        (cmds[n].kind = "mirror" /\ CommonToConnected = {}) =>
            /\ cur[Max(ConnIdx)].Name \in Appeared
            /\ \E i \in ConnIdx :
                /\ cur[i].Name \in Appeared
                /\ cur[i].Resolutions # <<>>
                /\ cmds[n].args[4] = String(cur[i].Resolutions[1])

\* the kinds of the commands run so far in this tick, in the order run
CmdKinds == [n \in 1..Len(cmds) |-> cmds[n].kind]

\* C15: the commands of a tick are at most one mirror command followed by at
\* most one restore command; a command enters the record when it has returned,
\* the mirror command in the appearance part and the restore command in the
\* disappearance part that follows it, and the record is only cleared at the
\* end of the tick.
C15_MirrorThenRestore ==
    /\ [](CmdKinds \in {<<>>, <<"mirror">>, <<"restore">>, <<"mirror", "restore">>})
    /\ [][cmds' # cmds =>
            \/ (pc = "update" /\ cmds' = <<>>)
            \/ /\ cmds' = Append(cmds, cmds'[Len(cmds')])
               /\ \/ (pc = "new" /\ cmds = <<>> /\ cmds'[Len(cmds')].kind = "mirror")
                  \/ (pc = "removed" /\ cmds'[Len(cmds')].kind = "restore")]_vars

\* both commands were run on one tick, the restore after a mirror that succeeded
C15_Witness ==
    /\ pc = "update"
    /\ CmdKinds = <<"mirror", "restore">>
    /\ cmds[1].ok
    /\ ~cmds[2].ok

\* the loop is inside a tick: between the tick's receipt and the end of the iteration
InTick == pc \in {"poll", "new", "removed", "update"}

\* C16: the loop exits only from the wait, by receiving the signal there; a
\* step of a started tick goes to the next part of the iteration whether or
\* not a signal is pending (from the query to the wait on a failure or to the
\* appearance part, then to the disappearance part, then to the replacement of
\* the retained snapshot and back to the wait), and the signal stays pending
\* through it; once the loop has exited nothing changes any more.
C16_ShutdownOnlyInWait ==
    /\ [][pc' = "done" => (pc = "select" /\ sigCh = 1 /\ sigCh' = 0 /\ cmds = <<>>)]_vars
    /\ [][(InTick /\ pc' # pc) =>
            /\ sigCh' = sigCh
            /\ \/ (pc = "poll" /\ pc' = "select" /\ queryErr' /\ prev' = prev)
               \/ (pc = "poll" /\ pc' = "new")
               \/ (pc = "new" /\ pc' = "removed")
               \/ (pc = "removed" /\ pc' = "update")
               \/ (pc = "update" /\ pc' = "select" /\ prev' = cur)]_vars
    /\ [][pc = "done" => UNCHANGED vars]_vars

\* a signal is pending at the end of a tick that has run a command
C16_Witness ==
    /\ pc = "update"
    /\ sigCh = 1
    /\ cmds # <<>>
    /\ cur # prev

\* names of the connected outputs of the retained snapshot
PrevNames == {prev[i].Name : i \in {j \in 1..Len(prev) : prev[j].Connected}}

\* C18: whenever the loop waits, prevSet is the set of names of the connected
\* outputs of prev and prev is the result of the most recent successful query;
\* a step that changes prev or prevSet is the startup or the end of a
\* successful tick and sets both, prev to the query's result and prevSet to
\* the names of its connected outputs.
C18_RetainedPairIsLastRead ==
    /\ [](pc = "select" =>
            /\ prevSet = PrevNames
            /\ reads # <<>>
            /\ prev = reads[Len(reads)])
    /\ [][(prev' # prev \/ prevSet' # prevSet) =>
            /\ pc \in {"start", "update"}
            /\ pc' = "select"
            /\ prev' = reads'[Len(reads')]
            /\ pc = "update" => prev' = cur
            /\ prevSet' = {prev'[i].Name : i \in {j \in 1..Len(prev') : prev'[j].Connected}}]_vars

\* the loop waits after a failed query that followed a successful one: prev is
\* the earlier result, with a connected and a disconnected output
C18_Witness ==
    /\ pc = "select"
    /\ failedSince
    /\ prev = reads[1]
    /\ Cardinality(prevSet) = 2
    /\ \E i \in 1..Len(prev) : ~prev[i].Connected

\* names of the connected outputs of the snapshot read before this tick's
ReadBeforeNames ==
    {reads[1][i].Name : i \in {j \in 1..Len(reads[1]) : reads[1][j].Connected}}

\* C19: at the end of a successful tick that follows one or more failed
\* queries, the retained snapshot is still the one read before the failures,
\* and the tick has reconciled against it: a mirror command was run exactly if
\* an output is connected now that was not connected in that snapshot and some
\* connected output is not the chosen primary, a restore command exactly if an
\* output connected in that snapshot is not connected now and a connected
\* output with the primary flag lists a mode; the commands are the ones a
\* tick computes from the new snapshot alone.
C19_ChangeSurvivesFailedQueries ==
    (pc = "update" /\ failedSince) =>
        /\ Len(reads) = 2
        /\ prev = reads[1]
        /\ cur = reads[2]
        /\ prevSet = ReadBeforeNames
        /\ Len(MirrorCmds) =
              (IF CurNames \ ReadBeforeNames # {} /\ (\E i \in ConnIdx : i # TargetIdx)
               THEN 1 ELSE 0)
        /\ Len(RestoreCmds) =
              (IF /\ ReadBeforeNames \ CurNames # {}
                  /\ \E i \in FlagIdx : cur[i].Resolutions # <<>>
               THEN 1 ELSE 0)
        /\ \A n \in 1..Len(MirrorCmds) :
              \E res \in bestCommonResolution(allConnected(cur)) :
                  MirrorCmds[n].args =
                      mirrorArgs(primaryOf(allConnected(cur)), externalsOf(allConnected(cur)), res)
        /\ \A n \in 1..Len(RestoreCmds) :
              RestoreCmds[n].args = restoreArgs(restoreCandidates(cur)[1])

\* after a failed query, a tick finds one output appeared and another gone
\* with respect to the snapshot read before the failure, and has run both commands
C19_Witness ==
    /\ pc = "update"
    /\ failedSince
    /\ CurNames \ ReadBeforeNames # {}
    /\ ReadBeforeNames \ CurNames # {}
    /\ Len(MirrorCmds) = 1
    /\ Len(RestoreCmds) = 1

\* positions of the header lines: the lines outputRe matches
HeaderIdx == {i \in 1..Len(lines) : matchOutput(lines[i]) # <<>>}

\* position of the k-th header line
HeaderAt(k) == CHOOSE i \in HeaderIdx : Cardinality({j \in HeaderIdx : j < i}) = k - 1

\* position of the header line after the k-th, past the last line if none
HeaderAfter(k) == IF k < Cardinality(HeaderIdx) THEN HeaderAt(k + 1) ELSE Len(lines) + 1

\* the resolutions of the mode lines (the lines modeRe matches) strictly
\* between positions a and b, in input order
ModesBetween(a, b) ==
    LET ms == SelectSeq(SubSeq(lines, a + 1, b - 1), LAMBDA l : matchMode(l) # <<>>)
    IN  [n \in 1..Len(ms) |-> matchMode(ms[n])[1]]

\* C17: parseXrandr returns one output per header line, in input order, with
\* the name, connection state and primary marker of that line, and the
\* resolutions of an output are those of the mode lines between its header
\* line and the next header line, one per mode line and in input order,
\* whether the output is connected or not; a mode line before the first header
\* line and a line that matches neither pattern add nothing.
C17_ParseFollowsLines ==
    pc = "parsed" =>
        /\ Len(outputs) = Cardinality(HeaderIdx)
        /\ \A k \in 1..Len(outputs) :
              LET h == matchOutput(lines[HeaderAt(k)])[1]
              IN  /\ outputs[k].Name = h.Name
                  /\ outputs[k].Connected = h.Connected
                  /\ outputs[k].Primary = h.Primary
                  /\ outputs[k].Resolutions = ModesBetween(HeaderAt(k), HeaderAfter(k))

\* a text with a mode line before its only header line, that of a disconnected
\* output, followed by the same mode twice: the output lists the mode twice
C17_Witness ==
    /\ pc = "parsed"
    /\ Len(lines) = 4
    /\ matchMode(lines[1]) # <<>>
    /\ HeaderIdx = {2}
    /\ Len(outputs) = 1
    /\ ~outputs[1].Connected
    /\ outputs[1].Resolutions = <<R1080, R1080>>

\* C20: a signal that waits in sigCh leads to the exit of the loop with
\* status 0, and a waiting signal leaves sigCh only by the select's signal
\* case, which exits: no step of a poll tick takes or drops it.
C20_SignalLeadsToExit ==
    /\ (sigCh = 1) ~> (pc = "done" /\ exitCode = 0)
    /\ [][(sigCh = 1 /\ sigCh' = 0) => (pc = "select" /\ pc' = "done" /\ exitCode' = 0)]_vars

\* the loop has exited on a signal with a tick still waiting in ticker.C,
\* after an iteration whose query failed
C20_Witness ==
    /\ pc = "done"
    /\ exitCode = 0
    /\ sigCh = 0
    /\ tickC = 1
    /\ failedSince

====
